---- MODULE Spec2Model ----
(***************************************************************************)
(* Model of spyder/plugins/languageserver/plugin.py: LanguageServerPlugin, *)
(* the manager of the LSP clients (one per configured language), and of    *)
(* spyder/plugins/editor/widgets/base.py: CompletionWidget and             *)
(* TextEditBaseWidget.                                                     *)
(*                                                                         *)
(* State of the plugin object:                                             *)
(*   clients         self.clients: language -> {status, config, instance}  *)
(*   order           insertion order of the keys of self.clients           *)
(*   register_queue  self.register_queue: language -> list of              *)
(*                   (filename, codeeditor) pairs                          *)
(* State of the objects the plugin drives:                                 *)
(*   instances       the LSPClient objects created so far; an instance is  *)
(*                   named by its index, None (0) is Python's None         *)
(*   environ         the process environment read by start_client          *)
(* History of the last handler that ran:                                   *)
(*   op              its name, its arguments, the exception it raised      *)
(*   calls           the calls it made on other objects, in order          *)
(*   fetched         language -> the configuration get_language_config     *)
(*                   returned when the stored 'config' was assigned        *)
(*                                                                         *)
(* State of the text edit widget:                                          *)
(*   text            the document, a sequence of characters in which "\n"  *)
(*                   separates the blocks (lines)                          *)
(*   anchor          anchor of the widget's text cursor                    *)
(*   position        position of the widget's text cursor                  *)
(*   cell_separators self.cell_separators: None, or the prefixes that      *)
(*                   start a cell                                          *)
(*   extra_selections_dict   self.extra_selections_dict: key -> list of    *)
(*                   decorations                                           *)
(*   decorations     the decorations held by self.decorations              *)
(* State of the completion widget of the text edit:                        *)
(*   widget          its attributes, its items, its current row and        *)
(*                   whether it is shown                                   *)
(* The editor method that runs or ran last:                                *)
(*   frame           its name, its arguments, its local variables and the  *)
(*                   value it returned                                     *)
(***************************************************************************)
EXTENDS Integers, Sequences, FiniteSets, TLC

VARIABLES clients, order, register_queue, instances, environ, op, calls,
          fetched, text, anchor, position, cell_separators,
          extra_selections_dict, decorations, widget, frame

pluginVars == <<clients, order, register_queue, instances, environ, op,
                calls, fetched>>

editorVars == <<text, anchor, position, cell_separators,
                extra_selections_dict, decorations, widget, frame>>

decorationVars == <<cell_separators, extra_selections_dict, decorations>>

vars == <<clients, order, register_queue, instances, environ, op, calls,
          fetched, text, anchor, position, cell_separators,
          extra_selections_dict, decorations, widget, frame>>

(***************************************************************************)
(* Bounds of the model.                                                    *)
(***************************************************************************)
MaxQueue == 1
MaxInstances == 2

(***************************************************************************)
(* Program constants.                                                      *)
(***************************************************************************)
STOPPED == "stopped"
RUNNING == "running"
LOCALHOST == {"127.0.0.1", "localhost"}
None == 0
NoError == "none"
AttributeError == "AttributeError"

\* spyder.plugins.languageserver.LSP_LANGUAGES, lower-cased (line 80)
LSP_LANGUAGES == {"r"}

\* the fields update_server_list compares to decide on a restart
restart_diff == {"cmd", "args", "host", "port", "external", "stdio"}

(***************************************************************************)
(* Inputs: what the configuration system (CONF) can hold.                  *)
(***************************************************************************)
Languages == {"python"} \cup LSP_LANGUAGES
Filenames == {"a.py"}
Codeeditors == {"ed1"}
Requests == {"didOpen"}
ProjectPaths == {"", "/proj"}
BusyPortSets == {{}, {2087}}

\* the option lists CONF.options('lsp-server') can return
OptionLists == {<<"pyflakes">>, <<"pyflakes", "r">>}

\* the 'lsp-server' options generate_python_config reads
BasePythonOptions ==
    [command_launch |-> "pyls", host |-> "127.0.0.1", port |-> 2087,
     external |-> FALSE, stdio |-> FALSE, plugins |-> "plugins1"]

\* the value of a language's own option (a server configuration dict)
BaseServerConfig ==
    [cmd |-> "rls", args |-> "--tcp", host |-> "127.0.0.1", port |-> 2087,
     external |-> FALSE, stdio |-> FALSE, configurations |-> "conf1"]

ServerConfigs ==
    {BaseServerConfig,
     [BaseServerConfig EXCEPT !.cmd = "rls2"],
     [BaseServerConfig EXCEPT !.args = ""],
     [BaseServerConfig EXCEPT !.host = "10.0.0.1"],
     [BaseServerConfig EXCEPT !.port = 2088],
     [BaseServerConfig EXCEPT !.external = TRUE],
     [BaseServerConfig EXCEPT !.stdio = TRUE],
     [BaseServerConfig EXCEPT !.configurations = "conf2"]}

\* Snapshots of CONF: the option names, the Python options, the value of
\* each other language's option.
\* ConfSnapshots: languages come and go, the Python server is switched
\* between tcp and stdio.
ConfSnapshots ==
    [options : OptionLists,
     python : {BasePythonOptions, [BasePythonOptions EXCEPT !.stdio = TRUE]},
     servers : [LSP_LANGUAGES -> {BaseServerConfig}]]

\* EditedSnapshots: every language is configured and the user edits one
\* field of the configuration of a server.
EditedSnapshots ==
    [options : {<<"pyflakes", "r">>}, python : {BasePythonOptions},
     servers : [LSP_LANGUAGES -> ServerConfigs]]

\* the environments start_client can run in: outside pytest, and under
\* pytest without SPY_TEST_USE_INTROSPECTION (with it set, start_client
\* goes on as outside pytest)
Environments ==
    {[pytest |-> FALSE, SPY_TEST_USE_INTROSPECTION |-> FALSE],
     [pytest |-> TRUE, SPY_TEST_USE_INTROSPECTION |-> FALSE]}

(***************************************************************************)
(* Helpers of the plugin.                                                  *)
(***************************************************************************)
IsLanguageOption(option) == option \in LSP_LANGUAGES

get_languages(conf) ==
    <<"python">> \o SelectSeq(conf.options, IsLanguageOption)

generate_python_config(options) ==
    [cmd |-> options.command_launch,
     args |-> IF options.host \in LOCALHOST /\ ~options.stdio
              THEN "--host {host} --port {port} --tcp"
              ELSE "",
     external |-> options.external,
     stdio |-> options.stdio,
     host |-> options.host,
     port |-> options.port,
     configurations |-> options.plugins]

get_language_config(conf, language) ==
    IF language = "python"
    THEN generate_python_config(conf.python)
    ELSE conf.servers[language]

\* project is main.projects.get_active_project_path(); "" is no project
get_root_path(project) ==
    IF project # "" THEN project ELSE "lsp_root_path"

\* spyder.utils.misc.select_port: the first port from default_port on that
\* can be bound
RECURSIVE select_port(_, _)
select_port(default_port, busy) ==
    IF default_port \in busy
    THEN select_port(default_port + 1, busy)
    ELSE default_port

Range(seq) == {seq[i] : i \in 1..Len(seq)}

(***************************************************************************)
(* The handlers as functions of the plugin's state s, a record             *)
(* [clients, order, register_queue, instances, calls, error, fetched,      *)
(* visited]; visited lists the languages update_server_list's loop has     *)
(* come to.  A handler that raised leaves error # NoError and does nothing *)
(* more.                                                                   *)
(***************************************************************************)
Call(s, c) == [s EXCEPT !.calls = Append(@, c)]

register_file(s, language, filename, codeeditor) ==
    IF language \in DOMAIN s.clients
    THEN LET language_client == s.clients[language].instance
         IN IF language_client = None
            THEN [s EXCEPT !.register_queue[language] =
                               Append(@, <<filename, codeeditor>>)]
            ELSE Call(s, [call |-> "register_file",
                          inst |-> language_client,
                          filename |-> filename,
                          codeeditor |-> codeeditor])
    ELSE s

register_client_instance(s, instance) ==
    LET s1 == Call(s, [call |-> "sig_initialize.connect", inst |-> instance,
                       slot |-> "editor.register_lsp_server_settings"])
        s2 == Call(s1, [call |-> "sig_server_error.connect",
                        inst |-> instance, slot |-> "report_server_error"])
    IN Call(s2, [call |-> "sig_initialize.connect", inst |-> instance,
                 slot |-> "projects.register_lsp_server_settings"])

skip_lsp_services(env) == env.pytest /\ ~env.SPY_TEST_USE_INTROSPECTION

start_client(s, language, env, busy, project) ==
    IF language \notin DOMAIN s.clients THEN s
    ELSE IF skip_lsp_services(env) THEN s
    ELSE IF s.clients[language].status # STOPPED THEN s
    ELSE
      LET language_client == s.clients[language]
          queue == s.register_queue[language]
          config == IF ~language_client.config.external
                    THEN [language_client.config EXCEPT
                            !.port = select_port(@, busy)]
                    ELSE language_client.config
          instance == Len(s.instances) + 1
          s1 == [s EXCEPT !.clients[language].config = config,
                          !.clients[language].instance = instance,
                          !.instances = Append(@, [language |-> language,
                                                   state |-> "created"])]
          s2 == Call(s1, [call |-> "LSPClient", inst |-> instance,
                          server_settings |-> config,
                          folder |-> get_root_path(project),
                          language |-> language])
          s3 == register_client_instance(s2, instance)
          s4 == Call([s3 EXCEPT !.instances[instance].state = "started"],
                     [call |-> "start", inst |-> instance])
          s5 == [s4 EXCEPT !.clients[language].status = RUNNING]
      IN IF queue # <<>>
         THEN \* language_client is the registry entry, a dict
              [s5 EXCEPT !.error = AttributeError]
         ELSE [s5 EXCEPT !.register_queue[language] = <<>>]

start_client_returns(s, language, env) ==
    IF language \notin DOMAIN s.clients THEN FALSE
    ELSE IF skip_lsp_services(env) THEN FALSE
    ELSE s.clients[language].status = RUNNING

\* close_client stopping the instance whatever the status
close_client_stopping_again(s, language) ==
    IF language \in DOMAIN s.clients
    THEN LET language_client == s.clients[language]
             s1 == IF language_client.instance # None
                   THEN Call([s EXCEPT
                                !.instances[language_client.instance].state =
                                    "stopped"],
                             [call |-> "stop",
                              inst |-> language_client.instance])
                   ELSE s
         IN [s1 EXCEPT !.clients[language].status = STOPPED]
    ELSE s

\* close_client marking the client STOPPED without stopping its instance
close_client_without_stop(s, language) ==
    IF language \in DOMAIN s.clients
    THEN [s EXCEPT !.clients[language].status = STOPPED]
    ELSE s

close_client(s, language) ==
    IF language \in DOMAIN s.clients
    THEN LET language_client == s.clients[language]
             s1 == IF language_client.status = RUNNING
                   THEN Call([s EXCEPT
                                !.instances[language_client.instance].state =
                                    "stopped"],
                             [call |-> "stop",
                              inst |-> language_client.instance])
                   ELSE s
         IN [s1 EXCEPT !.clients[language].status = STOPPED]
    ELSE s


RECURSIVE shutdown_from(_, _, _)
shutdown_from(s, keys, i) ==
    IF i > Len(keys) THEN s
    ELSE shutdown_from(close_client(s, keys[i]), keys, i + 1)

shutdown(s) == shutdown_from(s, s.order, 1)

RECURSIVE update_client_status_from(_, _, _, _)
update_client_status_from(s, active_set, keys, i) ==
    IF i > Len(keys) THEN s
    ELSE update_client_status_from(
             IF keys[i] \notin active_set THEN close_client(s, keys[i])
             ELSE s,
             active_set, keys, i + 1)

update_client_status(s, active_set) ==
    update_client_status_from(s, active_set, s.order, 1)

\* the loop of reinitialize_all_clients without the assignment of the folder
RECURSIVE reinitialize_from_keeping_folder(_, _, _, _)
reinitialize_from_keeping_folder(s, project, keys, i) ==
    IF i > Len(keys) THEN s
    ELSE LET language == keys[i]
             language_client == s.clients[language]
             instance == language_client.instance
             s1 == Call(s, [call |-> "editor.stop_lsp_services",
                            language |-> language])
             s3 == Call(s1, [call |-> "initialize", inst |-> instance])
         IN reinitialize_from_keeping_folder(
                IF language_client.status = RUNNING THEN s3 ELSE s,
                project, keys, i + 1)

RECURSIVE reinitialize_from(_, _, _, _)
reinitialize_from(s, project, keys, i) ==
    IF i > Len(keys) THEN s
    ELSE LET language == keys[i]
             language_client == s.clients[language]
             folder == get_root_path(project)
             instance == language_client.instance
             s1 == Call(s, [call |-> "editor.stop_lsp_services",
                            language |-> language])
             s2 == Call(s1, [call |-> "set_folder", inst |-> instance,
                             folder |-> folder])
             s3 == Call(s2, [call |-> "initialize", inst |-> instance])
         IN reinitialize_from(
                IF language_client.status = RUNNING THEN s3 ELSE s,
                project, keys, i + 1)

reinitialize_all_clients(s, project) ==
    reinitialize_from(Call(s, [call |-> "projects.stop_lsp_services"]),
                      project, s.order, 1)

\* send_request looking at the instance instead of the status
send_request_to_any_instance(s, language, request, params) ==
    IF language \in DOMAIN s.clients /\ s.clients[language].instance # None
    THEN Call(s, [call |-> "perform_request",
                  inst |-> s.clients[language].instance,
                  request |-> request, params |-> params])
    ELSE s

send_request(s, language, request, params) ==
    IF language \in DOMAIN s.clients
    THEN LET language_client == s.clients[language]
         IN IF language_client.status = RUNNING
            THEN Call(s, [call |-> "perform_request",
                          inst |-> language_client.instance,
                          request |-> request, params |-> params])
            ELSE s
    ELSE s

\* params is a dict: a function from its keys to strings
pop(params, key) == [k \in DOMAIN params \ {key} |-> params[k]]

RECURSIVE broadcast_from(_, _, _, _, _)
broadcast_from(s, request, params, keys, i) ==
    IF i > Len(keys) THEN s
    ELSE broadcast_from(send_request(s, keys[i], request, params),
                        request, params, keys, i + 1)

\* broadcast_request reading params['language'] without removing it
broadcast_request_keeping_language(s, request, params) ==
    LET language == IF "language" \in DOMAIN params
                    THEN params["language"] ELSE ""
    IN IF language # ""
       THEN send_request(s, language, request, params)
       ELSE broadcast_from(s, request, params, s.order, 1)

broadcast_request(s, request, params) ==
    LET language == IF "language" \in DOMAIN params
                    THEN params["language"] ELSE ""
        popped == pop(params, "language")
    IN IF language # ""
       THEN send_request(s, language, request, popped)
       ELSE broadcast_from(s, request, popped, s.order, 1)

NeedsRestart(current_config, new_config) ==
    \E x \in restart_diff : current_config[x] # new_config[x]

update_language(s, language, new_config, env, busy, project) ==
    LET config == [status |-> STOPPED, config |-> new_config,
                   instance |-> None]
    IN IF language \notin DOMAIN s.clients
       THEN [s EXCEPT !.clients = language :> config @@ @,
                      !.order = Append(@, language),
                      !.register_queue = language :> <<>> @@ @,
                      !.fetched = language :> new_config @@ @]
       ELSE LET current_config == s.clients[language].config
                restart == NeedsRestart(current_config, new_config)
            IN IF restart
               THEN IF s.clients[language].status = STOPPED
                    THEN [s EXCEPT !.clients[language] = config,
                                   !.fetched[language] = new_config]
                    ELSE LET s1 == Call(s,
                                     [call |-> "editor.stop_lsp_services",
                                      language |-> language])
                             s2 == Call(s1,
                                     [call |-> "projects.stop_lsp_services"])
                             s3 == close_client(s2, language)
                             s4 == [s3 EXCEPT
                                      !.clients[language] = config,
                                      !.fetched[language] = new_config]
                         IN start_client(s4, language, env, busy, project)
               ELSE IF s.clients[language].status = RUNNING
                    THEN Call(s, [call |-> "send_plugin_configurations",
                                  inst |-> s.clients[language].instance,
                                  configurations |->
                                      new_config.configurations])
                    ELSE s

RECURSIVE update_server_list_from(_, _, _, _, _, _, _)
update_server_list_from(s, languages, configs, env, busy, project, i) ==
    IF i > Len(languages) \/ s.error # NoError THEN s
    ELSE update_server_list_from(
             update_language([s EXCEPT !.visited = Append(@, languages[i])],
                             languages[i], configs[languages[i]],
                             env, busy, project),
             languages, configs, env, busy, project, i + 1)

update_server_list(s, conf, env, busy, project) ==
    LET languages == get_languages(conf)
        configs == [l \in Range(languages) |->
                       get_language_config(conf, l)]
    IN update_server_list_from(s, languages, configs, env, busy, project, 1)

(***************************************************************************)
(* The state machine.                                                      *)
(***************************************************************************)
State ==
    [clients |-> clients, order |-> order,
     register_queue |-> register_queue, instances |-> instances,
     calls |-> <<>>, error |-> NoError, fetched |-> fetched,
     visited |-> <<>>]

Becomes(s) ==
    /\ clients' = s.clients
    /\ order' = s.order
    /\ register_queue' = s.register_queue
    /\ instances' = s.instances
    /\ calls' = s.calls
    /\ fetched' = s.fetched
    /\ UNCHANGED environ
    /\ UNCHANGED editorVars

Bounded(s) ==
    /\ Len(s.instances) <= MaxInstances
    /\ \A l \in DOMAIN s.register_queue :
           Len(s.register_queue[l]) <= MaxQueue

\* self.cell_separators = None (class attribute)
NoCellSeparators == [none |-> TRUE, prefixes |-> {}]

\* a text edit widget as __init__ leaves it: no cell separators, no
\* decorations
NoDecorations ==
    /\ cell_separators = NoCellSeparators
    /\ extra_selections_dict = <<>>
    /\ decorations = {}

\* no text edit widget takes part in the plugin's runs
NoEditor ==
    /\ text = <<>>
    /\ anchor = 0
    /\ position = 0
    /\ NoDecorations
    /\ widget = [visible |-> FALSE]
    /\ frame = [name |-> "__init__"]

\* __init__: one STOPPED entry and one empty queue per configured language
InitFrom(snapshots, environments) ==
    \E conf \in snapshots, env \in environments :
        LET languages == get_languages(conf)
        IN /\ clients = [l \in Range(languages) |->
                            [status |-> STOPPED,
                             config |-> get_language_config(conf, l),
                             instance |-> None]]
           /\ order = languages
           /\ register_queue = [l \in Range(languages) |-> <<>>]
           /\ fetched = [l \in Range(languages) |->
                            get_language_config(conf, l)]
           /\ instances = <<>>
           /\ environ = env
           /\ op = [name |-> "__init__", error |-> NoError]
           /\ calls = <<>>
           /\ NoEditor

Init == InitFrom(ConfSnapshots, Environments)

LanguageArgs == Languages

RegisterFile ==
    \E language \in LanguageArgs, filename \in Filenames,
       codeeditor \in Codeeditors :
        LET s == register_file(State, language, filename, codeeditor)
        IN /\ Bounded(s)
           /\ Becomes(s)
           /\ op' = [name |-> "register_file", language |-> language,
                     filename |-> filename, codeeditor |-> codeeditor,
                     error |-> s.error]

StartClient ==
    \E language \in LanguageArgs, busy \in BusyPortSets,
       project \in ProjectPaths :
        LET s == start_client(State, language, environ, busy, project)
        IN /\ Bounded(s)
           /\ Becomes(s)
           /\ op' = [name |-> "start_client", language |-> language,
                     project |-> project,
                     returned |->
                         start_client_returns(State, language, environ),
                     error |-> s.error]

CloseClient ==
    \E language \in LanguageArgs :
        LET s == close_client(State, language)
        IN /\ Becomes(s)
           /\ op' = [name |-> "close_client", language |-> language,
                     error |-> s.error]

Shutdown ==
    LET s == shutdown(State)
    IN /\ Becomes(s)
       /\ op' = [name |-> "shutdown", error |-> s.error]

UpdateClientStatus ==
    \E active_set \in SUBSET Languages :
        LET s == update_client_status(State, active_set)
        IN /\ Becomes(s)
           /\ op' = [name |-> "update_client_status",
                     active_set |-> active_set, error |-> s.error]

ReinitializeAllClients ==
    \E project \in ProjectPaths :
        LET s == reinitialize_all_clients(State, project)
        IN /\ Becomes(s)
           /\ op' = [name |-> "reinitialize_all_clients",
                     project |-> project, error |-> s.error]

\* params without a 'language' entry, with the entry naming a language, and
\* with an entry that is empty ("" stands for '' and for None)
ParamsArgs ==
    {[file |-> "a.py"]} \cup
    {[file |-> "a.py", language |-> l] : l \in LanguageArgs \cup {""}}

SendRequest ==
    \E language \in LanguageArgs, request \in Requests :
        LET params == [file |-> "a.py"]
            s == send_request(State, language, request, params)
        IN /\ Becomes(s)
           /\ op' = [name |-> "send_request", language |-> language,
                     request |-> request, params |-> params,
                     error |-> s.error]

BroadcastRequest ==
    \E request \in Requests, params \in ParamsArgs :
        LET s == broadcast_request(State, request, params)
        IN /\ Becomes(s)
           /\ op' = [name |-> "broadcast_request", request |-> request,
                     params |-> params, error |-> s.error]

UpdateServerListFrom(snapshots) ==
    \E conf \in snapshots, busy \in BusyPortSets,
       project \in ProjectPaths :
        LET s == update_server_list(State, conf, environ, busy, project)
            languages == get_languages(conf)
        IN /\ Bounded(s)
           /\ Becomes(s)
           /\ op' = [name |-> "update_server_list",
                     languages |-> languages,
                     configs |-> [l \in Range(languages) |->
                                     get_language_config(conf, l)],
                     visited |-> s.visited,
                     project |-> project, error |-> s.error]

UpdateServerList == UpdateServerListFrom(ConfSnapshots)

Next ==
    \/ RegisterFile
    \/ StartClient
    \/ CloseClient
    \/ Shutdown
    \/ UpdateClientStatus
    \/ ReinitializeAllClients
    \/ SendRequest
    \/ BroadcastRequest
    \/ UpdateServerList

Spec == Init /\ [][Next]_vars

(***************************************************************************)
(* The same plugin when the user edits the servers' settings: every field  *)
(* of a server's configuration changes.  The handlers that leave the       *)
(* registry alone are left out.                                            *)
(***************************************************************************)
InitConfig ==
    InitFrom(EditedSnapshots,
             {[pytest |-> FALSE, SPY_TEST_USE_INTROSPECTION |-> FALSE]})

UpdateServerListEdited == UpdateServerListFrom(EditedSnapshots)

NextConfig ==
    \/ RegisterFile
    \/ StartClient
    \/ CloseClient
    \/ UpdateServerListEdited

SpecConfig == InitConfig /\ [][NextConfig]_vars

TypeOK ==
    /\ DOMAIN clients = Range(order)
    /\ DOMAIN register_queue = DOMAIN clients
    /\ \A l \in DOMAIN clients :
           /\ clients[l].status \in {STOPPED, RUNNING}
           /\ clients[l].instance \in 0..Len(instances)


(***************************************************************************)
(* Vocabulary of the properties.                                           *)
(***************************************************************************)
Tracked == DOMAIN clients

RegistryUnchanged ==
    UNCHANGED <<clients, order, register_queue, instances, fetched>>

\* the calls of one kind the last handler made on one instance, in order
CallsOn(log, kind, instance) ==
    LET Is(c) == c.call = kind /\ c.inst = instance
    IN SelectSeq(log, Is)

CallsOfKind(log, kind) ==
    LET Is(c) == c.call = kind
    IN SelectSeq(log, Is)

\* the (filename, codeeditor) pairs the last handler registered with an
\* instance, in order
RegisteredWith(log, instance) ==
    LET regs == CallsOn(log, "register_file", instance)
    IN [i \in 1..Len(regs) |-> <<regs[i].filename, regs[i].codeeditor>>]

IsPrefix(a, b) ==
    Len(a) <= Len(b) /\ \A i \in 1..Len(a) : a[i] = b[i]

LiveInstances(language) ==
    {i \in 1..Len(instances) :
        instances[i].language = language /\ instances[i].state = "started"}

(***************************************************************************)
(* C1: start_client(language) on a tracked language that is STOPPED and    *)
(* has a non-empty register queue (LSP services not skipped for testing)   *)
(* raises nothing, registers every queued pair with the new instance       *)
(* exactly once and in queue order, and leaves the queue empty.            *)
(***************************************************************************)
C1_StartClientReplaysQueue ==
    [][(/\ op'.name = "start_client"
        /\ op'.language \in Tracked
        /\ clients[op'.language].status = STOPPED
        /\ register_queue[op'.language] # <<>>
        /\ ~skip_lsp_services(environ))
       => (/\ op'.error = NoError
           /\ clients'[op'.language].instance = Len(instances) + 1
           /\ RegisteredWith(calls', clients'[op'.language].instance)
                  = register_queue[op'.language]
           /\ register_queue'[op'.language] = <<>>)]_vars

(***************************************************************************)
(* C2: register_file on a tracked language whose client is not RUNNING     *)
(* delivers nothing to any instance and appends the pair to the language's *)
(* queue, where it stays until the next start_client; on a RUNNING client  *)
(* the pair goes straight to the instance; on an untracked language        *)
(* nothing changes.                                                        *)
(***************************************************************************)
C2_RegisterFileQueuesUnlessRunning ==
    [][/\ op'.name = "register_file" =>
            LET language == op'.language
                pair == <<op'.filename, op'.codeeditor>>
            IN IF language \notin Tracked
               THEN calls' = <<>> /\ RegistryUnchanged
               ELSE IF clients[language].status # RUNNING
               THEN /\ calls' = <<>>
                    /\ register_queue' =
                           [register_queue EXCEPT ![language] =
                                Append(@, pair)]
                    /\ UNCHANGED <<clients, instances>>
               ELSE /\ RegisteredWith(calls', clients[language].instance)
                           = <<pair>>
                    /\ Len(calls') = 1
                    /\ RegistryUnchanged
       /\ op'.name \notin {"start_client", "update_server_list"} =>
            \A l \in Tracked : IsPrefix(register_queue[l], register_queue'[l])
      ]_vars

(***************************************************************************)
(* C3: every language has at most one instance that was started and not    *)
(* stopped, and that instance is the one in the language's registry entry, *)
(* whose status is RUNNING.                                                *)
(***************************************************************************)
C3_OneLiveInstancePerLanguage ==
    \A language \in Languages :
        /\ Cardinality(LiveInstances(language)) <= 1
        /\ \A i \in LiveInstances(language) :
               /\ language \in Tracked
               /\ clients[language].instance = i
               /\ clients[language].status = RUNNING

\* update_server_list restarted a client: the old instance of the language
\* is stopped and its new one runs
C3_Witness ==
    /\ \E i, j \in 1..Len(instances) :
           /\ instances[i].language = instances[j].language
           /\ instances[i].state = "stopped"
           /\ instances[j].state = "started"
    /\ op.name = "update_server_list"


\* the place of the first call of a kind in a log, 0 when there is none
PositionOf(log, Is(_)) ==
    IF \E i \in 1..Len(log) : Is(log[i])
    THEN CHOOSE i \in 1..Len(log) :
             Is(log[i]) /\ \A j \in 1..(i - 1) : ~Is(log[j])
    ELSE 0

\* update_server_list came to a language whose client is RUNNING and whose
\* stored configuration differs from the new one in a restart field
FindsChangedRunning(language) ==
    /\ op'.name = "update_server_list"
    /\ language \in Range(op'.visited)
    /\ language \in Tracked
    /\ clients[language].status = RUNNING
    /\ NeedsRestart(clients[language].config, op'.configs[language])

\* the order of a restart: the editor's services for the language are
\* stopped, then the old instance, then a new instance is created and
\* started; the language ends RUNNING with the new instance
RestartedInOrder(language) ==
    LET old == clients[language].instance
        new == clients'[language].instance
        StopsEditor(c) ==
            c.call = "editor.stop_lsp_services" /\ c.language = language
        StopsOld(c) == c.call = "stop" /\ c.inst = old
        Creates(c) == c.call = "LSPClient" /\ c.inst = new
        Starts(c) == c.call = "start" /\ c.inst = new
    IN /\ new > Len(instances)
       /\ 0 < PositionOf(calls', StopsEditor)
       /\ PositionOf(calls', StopsEditor) < PositionOf(calls', StopsOld)
       /\ PositionOf(calls', StopsOld) < PositionOf(calls', Creates)
       /\ PositionOf(calls', Creates) < PositionOf(calls', Starts)
       /\ Len(CallsOn(calls', "stop", old)) = 1
       /\ Len(CallsOn(calls', "start", new)) = 1
       /\ instances'[old].state = "stopped"
       /\ instances'[new].state = "started"
       /\ instances'[new].language = language
       /\ clients'[language].status = RUNNING

\* server settings made of a configuration: the configuration itself, but
\* for the port an internal server is given
BuiltFrom(server_settings, config) ==
    /\ \A x \in DOMAIN config \ {"port"} : server_settings[x] = config[x]
    /\ config.external => server_settings.port = config.port

(***************************************************************************)
(* C4: when update_server_list finds a restart field (cmd, args, host,    *)
(* port, external, stdio) changed for a RUNNING language, it stops the     *)
(* editor's LSP services for the language, then the old instance, and only *)
(* then creates and starts a new instance built from the new               *)
(* configuration; afterwards the language is RUNNING with the new instance *)
(* and the new configuration is the stored one.                            *)
(***************************************************************************)
C4_RestartOnChangedSettings ==
    [][\A language \in Languages :
         FindsChangedRunning(language) =>
           /\ RestartedInOrder(language)
           /\ BuiltFrom(CallsOn(calls', "LSPClient",
                                clients'[language].instance)[1]
                            .server_settings,
                        op'.configs[language])
           /\ clients'[language].config = op'.configs[language]]_vars

(***************************************************************************)
(* C5: when update_server_list comes to a RUNNING language and the user's  *)
(* settings of the restart fields are what they were when the client was   *)
(* started, the instance is neither stopped nor replaced; all it gets is   *)
(* one send_plugin_configurations with the new 'configurations'.           *)
(***************************************************************************)
C5_NoRestartOnUnchangedSettings ==
    [][\A language \in Languages :
         (/\ op'.name = "update_server_list"
          /\ language \in Range(op'.visited)
          /\ language \in Tracked
          /\ clients[language].status = RUNNING
          /\ ~NeedsRestart(fetched[language], op'.configs[language]))
         => LET instance == clients[language].instance
                OnInstance(c) == "inst" \in DOMAIN c /\ c.inst = instance
            IN /\ clients'[language].instance = instance
               /\ clients'[language].status = RUNNING
               /\ instances'[instance].state = "started"
               /\ SelectSeq(calls', OnInstance) =
                      <<[call |-> "send_plugin_configurations",
                         inst |-> instance,
                         configurations |->
                             op'.configs[language].configurations]>>]_vars


RunningLanguages == {l \in Tracked : clients[l].status = RUNNING}

\* the last handler made no call on the instance
NoCallOn(log, instance) ==
    \A i \in 1..Len(log) : "inst" \in DOMAIN log[i] => log[i].inst # instance

\* the request went exactly once to the client of each of the languages,
\* with these params, and nowhere else
ForwardedExactlyTo(languages, request, params) ==
    /\ Len(calls') = Cardinality(languages)
    /\ \A l \in languages :
           CallsOn(calls', "perform_request", clients[l].instance) =
               <<[call |-> "perform_request", inst |-> clients[l].instance,
                  request |-> request, params |-> params]>>

(***************************************************************************)
(* C6: send_request(language, request, params) forwards the request        *)
(* exactly once to the instance of the named language and to no other when *)
(* the language is tracked and RUNNING; otherwise the request is dropped;  *)
(* the registry and the queues do not change.                              *)
(***************************************************************************)
C6_SendRequestRoutes ==
    [][op'.name = "send_request" =>
         /\ IF op'.language \in RunningLanguages
            THEN ForwardedExactlyTo({op'.language}, op'.request, op'.params)
            ELSE calls' = <<>>
         /\ RegistryUnchanged]_vars

\* a request was forwarded while the other language's client was RUNNING too
C6_Witness ==
    /\ op.name = "send_request"
    /\ Len(calls) = 1
    /\ Cardinality(RunningLanguages) = 2

(***************************************************************************)
(* C7 as claimed: broadcast_request with no 'language' entry in params     *)
(* sends the request exactly once to every RUNNING client and to no        *)
(* STOPPED one; with a 'language' entry it sends only to that language's   *)
(* client; the forwarded params have no 'language' key.                    *)
(***************************************************************************)
C7_BroadcastAsClaimed ==
    [][op'.name = "broadcast_request" =>
         LET forwarded == pop(op'.params, "language")
         IN IF "language" \notin DOMAIN op'.params
            THEN ForwardedExactlyTo(RunningLanguages, op'.request, forwarded)
            ELSE ForwardedExactlyTo(
                     {op'.params["language"]} \cap RunningLanguages,
                     op'.request, forwarded)]_vars

(***************************************************************************)
(* C7 amended: broadcast_request with no 'language' entry in params, or    *)
(* with an entry that is empty or None, sends the request exactly once to  *)
(* every RUNNING client and to no STOPPED one; with a non-empty 'language' *)
(* entry it sends only to that language's client; the forwarded params     *)
(* have no 'language' key.                                                 *)
(***************************************************************************)
C7_BroadcastRequestRoutes ==
    [][op'.name = "broadcast_request" =>
         LET forwarded == pop(op'.params, "language")
         IN /\ "language" \notin DOMAIN forwarded
            /\ IF \/ "language" \notin DOMAIN op'.params
                  \/ op'.params["language"] = ""
               THEN ForwardedExactlyTo(RunningLanguages, op'.request,
                                       forwarded)
               ELSE ForwardedExactlyTo(
                        {op'.params["language"]} \cap RunningLanguages,
                        op'.request, forwarded)]_vars

\* a broadcast with an empty 'language' entry reached the one RUNNING client
\* and not the stopped instance of the other language
C7_Witness ==
    /\ op.name = "broadcast_request"
    /\ "language" \in DOMAIN op.params
    /\ op.params["language"] = ""
    /\ Len(calls) = 1
    /\ \E l \in Tracked :
           clients[l].status = STOPPED /\ clients[l].instance # None

(***************************************************************************)
(* C8: reinitialize_all_clients sets the folder of every RUNNING client to *)
(* the current root path and then calls its initialize() exactly once;     *)
(* STOPPED clients get nothing; no status or instance in the registry      *)
(* changes.                                                                *)
(***************************************************************************)
C8_ReinitializeRunningClients ==
    [][op'.name = "reinitialize_all_clients" =>
         /\ RegistryUnchanged
         /\ \A l \in Tracked :
              LET instance == clients[l].instance
                  SetsFolder(c) == c.call = "set_folder" /\ c.inst = instance
                  Initializes(c) == c.call = "initialize" /\ c.inst = instance
              IN IF clients[l].status = RUNNING
                 THEN /\ CallsOn(calls', "set_folder", instance) =
                             <<[call |-> "set_folder", inst |-> instance,
                                folder |-> IF op'.project # ""
                                           THEN op'.project
                                           ELSE "lsp_root_path"]>>
                      /\ Len(CallsOn(calls', "initialize", instance)) = 1
                      /\ PositionOf(calls', SetsFolder)
                             < PositionOf(calls', Initializes)
                 ELSE NoCallOn(calls', instance)]_vars

\* with a project open, one RUNNING client was initialized again while the
\* other language's stopped instance was left alone
C8_Witness ==
    /\ op.name = "reinitialize_all_clients"
    /\ op.project # ""
    /\ Len(CallsOfKind(calls, "initialize")) = 1
    /\ \E l \in Tracked :
           clients[l].status = STOPPED /\ clients[l].instance # None

(***************************************************************************)
(* C9: after update_server_list the tracked languages are exactly the      *)
(* languages get_languages returns: new ones were added STOPPED with an    *)
(* empty queue, and languages no longer configured are no longer tracked.  *)
(***************************************************************************)
C9_TrackedAreConfigured ==
    [][op'.name = "update_server_list" =>
         /\ DOMAIN clients' = Range(op'.languages)
         /\ \A l \in Range(op'.languages) \ Tracked :
                /\ clients'[l].status = STOPPED
                /\ clients'[l].instance = None
                /\ register_queue'[l] = <<>>]_vars

(***************************************************************************)
(* C10: shutdown leaves every tracked language STOPPED and calls stop()    *)
(* exactly once on each instance that was RUNNING, never on a STOPPED one; *)
(* a repeated shutdown, and close_client on a STOPPED or untracked         *)
(* language, call stop() on nothing and change no state.                   *)
(***************************************************************************)
C10_IdempotentStops ==
    [][/\ op'.name = "shutdown" =>
            /\ \A l \in Tracked : clients'[l].status = STOPPED
            /\ Len(calls') = Cardinality(RunningLanguages)
            /\ \A l \in RunningLanguages :
                   CallsOn(calls', "stop", clients[l].instance) =
                       <<[call |-> "stop", inst |-> clients[l].instance]>>
            /\ RunningLanguages = {} => RegistryUnchanged
            /\ UNCHANGED <<order, register_queue, fetched>>
            /\ DOMAIN clients' = Tracked
       /\ (/\ op'.name = "close_client"
           /\ op'.language \notin RunningLanguages)
          => calls' = <<>> /\ RegistryUnchanged]_vars

\* shutdown was repeated: both languages have a stopped instance and the
\* second shutdown called nothing
C10_Witness ==
    /\ op.name = "shutdown"
    /\ calls = <<>>
    /\ Cardinality(Tracked) = 2
    /\ \A l \in Tracked :
           /\ clients[l].instance # None
           /\ instances[clients[l].instance].state = "stopped"

(***************************************************************************)
(* spyder/plugins/editor/widgets/base.py: the document of a                *)
(* TextEditBaseWidget and its text cursor.  A position p lies between the  *)
(* characters text[p] and text[p+1]; 0 is the start of the document.       *)
(***************************************************************************)
MaxLen == 4

\* block separator of the document (what toPlainText() shows as "\n")
NewLine == "\n"

\* the documents of at most n characters over an alphabet
Texts(alphabet, n) == UNION {[1..k -> alphabet] : k \in 0..n}

Min(a, b) == IF a < b THEN a ELSE b

Max(a, b) == IF a < b THEN b ELSE a

\* cursor.selectionStart() and cursor.selectionEnd()
selectionStart(a, p) == Min(a, p)

selectionEnd(a, p) == Max(a, p)

\* cursor.movePosition(QTextCursor.StartOfBlock)
RECURSIVE StartOfBlock(_, _)
StartOfBlock(t, p) ==
    IF p = 0 \/ t[p] = NewLine THEN p ELSE StartOfBlock(t, p - 1)

\* cursor.movePosition(QTextCursor.EndOfBlock)
RECURSIVE EndOfBlock(_, _)
EndOfBlock(t, p) ==
    IF p = Len(t) \/ t[p + 1] = NewLine THEN p ELSE EndOfBlock(t, p + 1)

\* cursor.movePosition(QTextCursor.NextBlock): to the start of the next
\* block; the cursor stays where it is in the last block
NextBlock(t, p) ==
    IF EndOfBlock(t, p) = Len(t) THEN p ELSE EndOfBlock(t, p) + 1

\* cursor.movePosition(QTextCursor.PreviousBlock): to the start of the
\* previous block; the cursor stays where it is in the first block
PreviousBlock(t, p) ==
    IF StartOfBlock(t, p) = 0 THEN p
    ELSE StartOfBlock(t, StartOfBlock(t, p) - 1)

\* cursor.atBlockStart(), cursor.atStart() and cursor.atEnd()
atBlockStart(t, p) == StartOfBlock(t, p) = p

atStart(t, p) == p = 0

atEnd(t, p) == p = Len(t)

\* the characters between two positions
Slice(t, from, to) == SubSeq(t, from + 1, to)

\* the text edit widget of a run in which no completion is asked and no
\* decoration is set
NoPlugin ==
    /\ clients = <<>>
    /\ order = <<>>
    /\ register_queue = <<>>
    /\ instances = <<>>
    /\ environ = [pytest |-> FALSE, SPY_TEST_USE_INTROSPECTION |-> FALSE]
    /\ op = [name |-> "__init__", error |-> NoError]
    /\ calls = <<>>
    /\ fetched = <<>>

\* a document with a cursor in it
InitDocument(texts) ==
    /\ text \in texts
    /\ anchor \in 0..Len(text)
    /\ position \in 0..Len(text)

(***************************************************************************)
(* truncate_selection: the widget of a shell, whose text before            *)
(* position_from is read-only.                                             *)
(***************************************************************************)
\* get_position(subject): the offset a subject names, or the subject itself
\* when it is already a position (subject.subject = "offset")
get_position(t, p, subject) ==
    CASE subject.subject = "cursor" -> p
      [] subject.subject = "sol" -> StartOfBlock(t, p)
      [] subject.subject = "eol" -> EndOfBlock(t, p)
      [] subject.subject = "eof" -> Len(t)
      [] subject.subject = "sof" -> 0
      [] OTHER -> subject.offset

Subjects(t) ==
    {[subject |-> s, offset |-> 0] :
         s \in {"cursor", "sol", "eol", "eof", "sof"}}
    \cup {[subject |-> "offset", offset |-> o] : o \in 0..Len(t)}

\* set_selection(start, end): the cursor <<anchor, position>> afterwards
set_selection(start, end) == <<start, end>>

\* truncate_selection(position_from): the cursor <<anchor, position>>
\* afterwards
truncate_selection(t, a, p, position_from) ==
    LET from == get_position(t, p, position_from)
        start == selectionStart(a, p)
        end == selectionEnd(a, p)
    IN IF start < end
       THEN set_selection(Max(from, start), end)
       ELSE set_selection(start, Max(from, end))

ShellTexts == Texts({"a", NewLine}, MaxLen)

InitShell ==
    /\ NoPlugin
    /\ InitDocument(ShellTexts)
    /\ NoDecorations
    /\ widget = [visible |-> FALSE]
    /\ frame = [name |-> "__init__", from |-> 0]

SetSelection ==
    \E start \in 0..Len(text), end \in 0..Len(text) :
        /\ anchor' = set_selection(start, end)[1]
        /\ position' = set_selection(start, end)[2]
        /\ frame' = [name |-> "set_selection", from |-> 0]
        /\ UNCHANGED <<text, widget>>
        /\ UNCHANGED decorationVars
        /\ UNCHANGED pluginVars

TruncateSelection ==
    \E position_from \in Subjects(text) :
        LET cursor == truncate_selection(text, anchor, position, position_from)
        IN /\ anchor' = cursor[1]
           /\ position' = cursor[2]
           /\ frame' = [name |-> "truncate_selection",
                        from |-> get_position(text, position, position_from)]
           /\ UNCHANGED <<text, widget>>
           /\ UNCHANGED decorationVars
           /\ UNCHANGED pluginVars

NextShell ==
    \/ SetSelection
    \/ TruncateSelection

SpecShell == InitShell /\ [][NextShell]_vars

(***************************************************************************)
(* C15: after truncate_selection(position_from) no selected character      *)
(* lies before position_from: the selection is empty or it starts at       *)
(* position_from or after it.                                              *)
(***************************************************************************)
C15_TruncateSelectionUnselects ==
    [][frame'.name = "truncate_selection" =>
           \/ anchor' = position'
           \/ selectionStart(anchor', position') >= frame'.from]_vars

(***************************************************************************)
(* go_to_next_cell: the widget of a code editor, whose lines that start    *)
(* with one of cell_separators begin a cell.  The method is modelled one   *)
(* evaluation of its loop at a time; frame holds its local variables       *)
(* cursor (<<anchor, position>>), cur_pos and prev_pos.                    *)
(***************************************************************************)
\* what selectedText() shows in place of a block separator
ParagraphSeparator == "U+2029"

Whitespace == {" ", NewLine, "\r", ParagraphSeparator}

\* str.lstrip()
RECURSIVE lstrip(_)
lstrip(s) ==
    IF s # <<>> /\ Head(s) \in Whitespace THEN lstrip(Tail(s)) ELSE s

\* str.startswith(prefix)
startswith(s, prefix) ==
    /\ Len(prefix) <= Len(s)
    /\ SubSeq(s, 1, Len(prefix)) = prefix

\* cursor.select(QTextCursor.BlockUnderCursor); cursor.selectedText(): the
\* block of the cursor, after the separator that precedes it
BlockUnderCursor(t, p) ==
    LET block == Slice(t, StartOfBlock(t, p), EndOfBlock(t, p))
    IN IF StartOfBlock(t, p) = 0 THEN block
       ELSE <<ParagraphSeparator>> \o block

\* is_cell_separator(cursor)
is_cell_separator(t, separators, p) ==
    IF separators.none THEN FALSE
    ELSE \E prefix \in separators.prefixes :
             startswith(lstrip(BlockUnderCursor(t, p)), prefix)

\* cursor.movePosition(QTextCursor.NextBlock) on a cursor
\* <<anchor, position>>: a move that fails leaves the cursor as it is
MoveToNextBlock(t, cursor) ==
    IF NextBlock(t, cursor[2]) = cursor[2] THEN cursor
    ELSE <<NextBlock(t, cursor[2]), NextBlock(t, cursor[2])>>

\* go_to_next_cell up to its loop
go_to_next_cell_enter(t, a, p) ==
    LET cursor == MoveToNextBlock(t, <<a, p>>)
    IN [name |-> "go_to_next_cell", pc |-> "while", entry |-> <<a, p>>,
        cursor |-> cursor, cur_pos |-> cursor[2], prev_pos |-> cursor[2]]

\* the loop without the return that ends it in the last block
go_to_next_cell_loop_without_return(t, separators, f) ==
    IF ~is_cell_separator(t, separators, f.cursor[2])
    THEN LET cursor == MoveToNextBlock(t, f.cursor)
         IN [f EXCEPT !.cursor = cursor,
                      !.prev_pos = f.cur_pos,
                      !.cur_pos = cursor[2]]
    ELSE [f EXCEPT !.pc = "setTextCursor"]

\* go_to_next_cell: one test of the loop's condition, and the body or the
\* statement after the loop
go_to_next_cell_loop(t, separators, f) ==
    IF ~is_cell_separator(t, separators, f.cursor[2])
    THEN LET cursor == MoveToNextBlock(t, f.cursor)
         IN [f EXCEPT !.cursor = cursor,
                      !.prev_pos = f.cur_pos,
                      !.cur_pos = cursor[2],
                      !.pc = IF cursor[2] = f.cur_pos THEN "return"
                             ELSE "while"]
    ELSE [f EXCEPT !.pc = "setTextCursor"]

CellAlphabet == {"%", " ", NewLine}

CellTexts == Texts(CellAlphabet, MaxLen)

CellSeparators ==
    {NoCellSeparators,
     [none |-> FALSE, prefixes |-> {<<"%">>}],
     [none |-> FALSE, prefixes |-> {<<"%", "%">>}]}

InitCell ==
    /\ NoPlugin
    /\ text \in CellTexts
    /\ position \in 0..Len(text)
    /\ anchor \in {position, 0}
    /\ cell_separators \in CellSeparators
    /\ extra_selections_dict = <<>>
    /\ decorations = {}
    /\ widget = [visible |-> FALSE]
    /\ frame = [name |-> "__init__", pc |-> "idle", entry |-> <<0, 0>>,
                cursor |-> <<0, 0>>, cur_pos |-> 0, prev_pos |-> 0]

GoToNextCell ==
    /\ frame.pc = "idle"
    /\ frame' = go_to_next_cell_enter(text, anchor, position)
    /\ UNCHANGED <<text, anchor, position, widget>>
    /\ UNCHANGED decorationVars
    /\ UNCHANGED pluginVars

GoToNextCellLoop ==
    /\ frame.pc = "while"
    /\ LET f == go_to_next_cell_loop(text, cell_separators, frame)
       IN /\ frame' = [f EXCEPT !.pc = IF f.pc = "while" THEN "while"
                                       ELSE "done"]
          /\ IF f.pc = "setTextCursor"
             THEN anchor' = f.cursor[1] /\ position' = f.cursor[2]
             ELSE UNCHANGED <<anchor, position>>
    /\ UNCHANGED <<text, widget>>
    /\ UNCHANGED decorationVars
    /\ UNCHANGED pluginVars

NextCell ==
    \/ GoToNextCell
    \/ GoToNextCellLoop

\* a method that was called runs to its end
SpecCell == InitCell /\ [][NextCell]_vars /\ WF_vars(GoToNextCellLoop)

\* the starts of the cell-separator lines after the line of position p
SeparatorsAfter(p) ==
    {q \in 0..Len(text) :
         /\ atBlockStart(text, q)
         /\ q > EndOfBlock(text, p)
         /\ is_cell_separator(text, cell_separators, q)}

FirstOf(S) == CHOOSE q \in S : \A r \in S : q <= r

(***************************************************************************)
(* C17: go_to_next_cell terminates on every document and cursor position;  *)
(* when it has returned the cursor is at the start of the first            *)
(* cell-separator line after the line the cursor was on, and where it was  *)
(* when no cell separator follows (cell_separators None included).         *)
(***************************************************************************)
C17_GoToNextCellTerminates ==
    /\ (frame.pc = "while") ~> (frame.pc = "done")
    /\ [](frame.pc = "done" =>
              LET after == SeparatorsAfter(frame.entry[2])
              IN IF after # {}
                 THEN position = FirstOf(after) /\ anchor = position
                 ELSE <<anchor, position>> = frame.entry)

\* two separator lines follow the cursor's line and the cursor went to the
\* first of them
C17_Witness ==
    /\ frame.pc = "done"
    /\ Cardinality(SeparatorsAfter(frame.entry[2])) = 2
    /\ position = FirstOf(SeparatorsAfter(frame.entry[2]))
    /\ position # frame.entry[2]

(***************************************************************************)
(* get_selection_as_executable_code: the selected text made ready to be    *)
(* run in a console.  A text is a sequence of characters, a line separator *)
(* is a text of one or two characters.                                     *)
(***************************************************************************)
\* min_indent = 999
InitialMinIndent == 999

LineSeparators == {<<NewLine>>, <<"\r", NewLine>>}

\* cursor.selectedText(): the block separators show as U+2029
selectedText(t, a, p) ==
    LET chars == Slice(t, selectionStart(a, p), selectionEnd(a, p))
    IN [i \in 1..Len(chars) |->
            IF chars[i] = NewLine THEN ParagraphSeparator ELSE chars[i]]

\* str.replace(old, new) for one character old
RECURSIVE replace(_, _, _)
replace(s, old, new) ==
    IF s = <<>> THEN <<>>
    ELSE (IF Head(s) = old THEN new ELSE <<Head(s)>>)
         \o replace(Tail(s), old, new)

\* get_selected_text(): the selected text with the line separator of the
\* document
get_selected_text(t, a, p, ls) ==
    replace(selectedText(t, a, p), ParagraphSeparator, ls)

\* str.split(sep)
RECURSIVE split(_, _)
split(s, sep) ==
    LET found == {i \in 1..Len(s) : startswith(SubSeq(s, i, Len(s)), sep)}
    IN IF found = {} THEN <<s>>
       ELSE LET i == CHOOSE j \in found : \A k \in found : j <= k
            IN <<SubSeq(s, 1, i - 1)>>
               \o split(SubSeq(s, i + Len(sep), Len(s)), sep)

\* sep.join(lines)
RECURSIVE join(_, _)
join(lines, sep) ==
    IF lines = <<>> THEN <<>>
    ELSE IF Len(lines) = 1 THEN Head(lines)
    ELSE Head(lines) \o sep \o join(Tail(lines), sep)

\* s * n
RECURSIVE Times(_, _)
Times(s, n) == IF n <= 0 THEN <<>> ELSE s \o Times(s, n - 1)

\* _indent = lambda line: len(line)-len(line.lstrip())
indent(line) == Len(line) - Len(lstrip(line))

\* block.blockNumber() of the block of a position
blockNumber(t, p) == Cardinality({i \in 1..p : t[i] = NewLine})

\* get_selection_bounds(): the line numbers of the selection's ends
get_selection_bounds(t, a, p) ==
    <<blockNumber(t, selectionStart(a, p)),
      blockNumber(t, selectionEnd(a, p))>>

\* str.splitlines() of toPlainText(): a last empty line is not a line
splitlines(t) ==
    LET blocks == split(t, <<NewLine>>)
    IN IF blocks[Len(blocks)] = <<>> THEN SubSeq(blocks, 1, Len(blocks) - 1)
       ELSE blocks

\* get_text_line(line_nb)
get_text_line(t, line_nb, ls) ==
    IF line_nb < Len(splitlines(t)) THEN splitlines(t)[line_nb + 1] ELSE ls

\* the loop over range(len(lines)-1, -1, -1): blank lines take the
\* indentation of the next line that is not blank
RECURSIVE fix_indentation(_, _, _, _)
fix_indentation(lines, i, current_indent, min_indent) ==
    IF i = 0 THEN [lines |-> lines, min_indent |-> min_indent]
    ELSE IF lstrip(lines[i]) # <<>>
    THEN fix_indentation(lines, i - 1, indent(lines[i]),
                         Min(indent(lines[i]), min_indent))
    ELSE fix_indentation([lines EXCEPT ![i] = Times(<<" ">>, current_indent)],
                         i - 1, current_indent, min_indent)

\* the loop `while lines`: the leading blank and comment lines are removed
RECURSIVE remove_leading(_, _)
remove_leading(lines, lines_removed) ==
    IF lines # <<>>
       /\ (lstrip(Head(lines)) = <<>> \/ Head(lstrip(Head(lines))) = "#")
    THEN remove_leading(Tail(lines), lines_removed + 1)
    ELSE [lines |-> lines, lines_removed |-> lines_removed]

\* the method without leading_lines_str
get_selection_as_executable_code_without_leading(t, a, p, ls) ==
    LET line_from == get_selection_bounds(t, a, p)[1]
        selected == get_selected_text(t, a, p, ls)
        original_indent == indent(get_text_line(t, line_from, ls))
        indented ==
            IF Len(split(selected, ls)) > 1
            THEN Times(<<" ">>,
                       original_indent - indent(split(selected, ls)[1]))
                 \o selected
            ELSE selected
        fixed == fix_indentation(split(indented, ls),
                                 Len(split(indented, ls)), 0,
                                 InitialMinIndent)
        dedented ==
            IF fixed.min_indent # 0
            THEN [i \in 1..Len(fixed.lines) |->
                      SubSeq(fixed.lines[i], fixed.min_indent + 1,
                             Len(fixed.lines[i]))]
            ELSE fixed.lines
        kept == remove_leading(dedented, 0)
    IN IF selected = <<>> THEN [none |-> TRUE, value |-> <<>>]
       ELSE [none |-> FALSE,
             value |-> join(kept.lines \o <<ls>>, ls)]

\* get_selection_as_executable_code(): None, or the text returned
get_selection_as_executable_code(t, a, p, ls) ==
    LET line_from == get_selection_bounds(t, a, p)[1]
        selected == get_selected_text(t, a, p, ls)
        original_indent == indent(get_text_line(t, line_from, ls))
        indented ==
            IF Len(split(selected, ls)) > 1
            THEN Times(<<" ">>,
                       original_indent - indent(split(selected, ls)[1]))
                 \o selected
            ELSE selected
        fixed == fix_indentation(split(indented, ls),
                                 Len(split(indented, ls)), 0,
                                 InitialMinIndent)
        dedented ==
            IF fixed.min_indent # 0
            THEN [i \in 1..Len(fixed.lines) |->
                      SubSeq(fixed.lines[i], fixed.min_indent + 1,
                             Len(fixed.lines[i]))]
            ELSE fixed.lines
        kept == remove_leading(dedented, 0)
    IN IF selected = <<>> THEN [none |-> TRUE, value |-> <<>>]
       ELSE [none |-> FALSE,
             value |-> Times(ls, kept.lines_removed)
                       \o join(kept.lines \o <<ls>>, ls)]

CodeAlphabet == {"x", "#", " ", NewLine}

CodeTexts == Texts(CodeAlphabet, MaxLen)

InitCode ==
    /\ NoPlugin
    /\ InitDocument(CodeTexts)
    /\ NoDecorations
    /\ widget = [visible |-> FALSE]
    /\ frame = [name |-> "__init__", ls |-> <<NewLine>>,
                returned |-> [none |-> TRUE, value |-> <<>>]]

GetSelectionAsExecutableCode ==
    \E ls \in LineSeparators :
        /\ frame' = [name |-> "get_selection_as_executable_code",
                     ls |-> ls,
                     returned |-> get_selection_as_executable_code(
                                      text, anchor, position, ls)]
        /\ UNCHANGED <<text, anchor, position, widget>>
        /\ UNCHANGED decorationVars
        /\ UNCHANGED pluginVars

NextCode == GetSelectionAsExecutableCode

SpecCode == InitCode /\ [][NextCode]_vars

\* the lines of the selection
SelectedLines == split(get_selected_text(text, anchor, position, frame.ls),
                       frame.ls)

ReturnedLines == split(frame.returned.value, frame.ls)

IsBlankOrComment(line) ==
    lstrip(line) = <<>> \/ Head(lstrip(line)) = "#"

\* the number of blank or comment lines before the first line of code
RECURSIVE LeadingBlankOrComment(_)
LeadingBlankOrComment(lines) ==
    IF lines = <<>> \/ ~IsBlankOrComment(Head(lines)) THEN 0
    ELSE 1 + LeadingBlankOrComment(Tail(lines))

endswith(s, suffix) ==
    /\ Len(suffix) <= Len(s)
    /\ SubSeq(s, Len(s) - Len(suffix) + 1, Len(s)) = suffix

(***************************************************************************)
(* C16: get_selection_as_executable_code returns None for an empty         *)
(* selection.  For a selection that is not empty the text returned ends    *)
(* with a line separator, every leading blank or comment line of the       *)
(* selection is an empty line of it, and every other line k of the         *)
(* selection is line k of it, up to the indentation.                       *)
(***************************************************************************)
C16_ExecutableCodeKeepsLineNumbers ==
    frame.name = "get_selection_as_executable_code" =>
        IF anchor = position THEN frame.returned.none
        ELSE /\ ~frame.returned.none
             /\ endswith(frame.returned.value, frame.ls)
             /\ Len(ReturnedLines) >= Len(SelectedLines)
             /\ \A k \in 1..Len(SelectedLines) :
                    IF k <= LeadingBlankOrComment(SelectedLines)
                    THEN ReturnedLines[k] = <<>>
                    ELSE lstrip(ReturnedLines[k]) = lstrip(SelectedLines[k])

\* two leading lines were removed, a comment and a blank one, and the code
\* of the third line is the third line returned
C16_Witness ==
    /\ frame.name = "get_selection_as_executable_code"
    /\ ~frame.returned.none
    /\ Len(SelectedLines) = 3
    /\ LeadingBlankOrComment(SelectedLines) = 2
    /\ SelectedLines[1] = <<"#">>
    /\ ReturnedLines[3] = <<"x">>

(***************************************************************************)
(* move_line_up and move_line_down: __move_line_or_selection moves the     *)
(* lines of the selection, or the line of the cursor, past the line        *)
(* before or after them.                                                   *)
(***************************************************************************)
\* cursor.setPosition(pos) on a cursor at position p: a position outside
\* the document is refused
setPosition(t, p, pos) == IF pos \in 0..Len(t) THEN pos ELSE p

\* cursor.insertText(): what the document receives for a text; "\n",
\* "\r\n", "\r" and U+2029 each start a new block
RECURSIVE insertedBlocks(_)
insertedBlocks(s) ==
    IF s = <<>> THEN <<>>
    ELSE IF Head(s) = "\r" /\ Len(s) > 1 /\ s[2] = NewLine
    THEN <<NewLine>> \o insertedBlocks(Tail(Tail(s)))
    ELSE IF Head(s) \in {"\r", NewLine, ParagraphSeparator}
    THEN <<NewLine>> \o insertedBlocks(Tail(s))
    ELSE <<Head(s)>> \o insertedBlocks(Tail(s))

\* cursor.insertText(s) at position p: the document afterwards
insertText(t, p, s) ==
    Slice(t, 0, p) \o insertedBlocks(s) \o Slice(t, p, Len(t))

\* cursor.removeSelectedText() of the selection from..to: the document
\* afterwards
removeSelectedText(t, from, to) == Slice(t, 0, from) \o Slice(t, to, Len(t))

\* cursor.deletePreviousChar() at position p: the document afterwards
deletePreviousChar(t, p) ==
    IF p = 0 THEN t ELSE Slice(t, 0, p - 1) \o Slice(t, p, Len(t))

\* cursor.block().text()
blockText(t, p) == Slice(t, StartOfBlock(t, p), EndOfBlock(t, p))

\* sel_text[0:-1]
WithoutLast(s) == SubSeq(s, 1, Len(s) - 1)

\* __restore_selection(start_pos, end_pos) on a widget whose cursor was set
\* to the cursor at position p
restore_selection(t, p, start_pos, end_pos) ==
    [text |-> t,
     anchor |-> setPosition(t, p, start_pos),
     position |-> setPosition(t, setPosition(t, p, start_pos), end_pos)]

\* the method when the selected lines are put back where they were taken
move_line_or_selection_in_place(t, a, p, after_current_line, linesep) ==
    LET start_pos == StartOfBlock(t, selectionStart(a, p))
        saved_end == selectionEnd(a, p)
        end_pos == IF ~atBlockStart(t, saved_end) \/ saved_end = start_pos
                   THEN NextBlock(t, EndOfBlock(t, saved_end))
                   ELSE saved_end
    IN restore_selection(t, end_pos, start_pos, end_pos)

\* __move_line_or_selection(after_current_line): the document and the
\* cursor afterwards
move_line_or_selection(t, a, p, after_current_line, linesep) ==
    LET start_pos == StartOfBlock(t, selectionStart(a, p))
        saved_end == selectionEnd(a, p)
        end_pos == IF ~atBlockStart(t, saved_end) \/ saved_end = start_pos
                   THEN NextBlock(t, EndOfBlock(t, saved_end))
                   ELSE saved_end
        last_line == /\ atEnd(t, end_pos)
                     /\ ~atBlockStart(t, end_pos) \/ end_pos = start_pos
        sel_text == selectedText(t, start_pos, end_pos)
        removed == removeSelectedText(t, start_pos, end_pos)
    IN IF atStart(t, start_pos) /\ ~after_current_line
       THEN restore_selection(t, start_pos, start_pos, end_pos)
       ELSE IF last_line /\ after_current_line
       THEN restore_selection(t, end_pos, start_pos, end_pos)
       ELSE IF after_current_line
       THEN LET block == blockText(removed, start_pos)
                at == EndOfBlock(removed, start_pos)
                moved == insertText(removed, at,
                                    linesep \o WithoutLast(sel_text))
            IN restore_selection(
                   moved,
                   at + Len(insertedBlocks(linesep \o WithoutLast(sel_text))),
                   start_pos + Len(block) + 1,
                   end_pos + Len(block)
                       + (IF ~atEnd(removed, at) THEN 1 ELSE 0))
       ELSE LET joined == IF last_line
                          THEN deletePreviousChar(removed, start_pos)
                          ELSE removed
                at == IF last_line
                      THEN StartOfBlock(joined, start_pos - 1)
                      ELSE PreviousBlock(joined, start_pos)
                inserted == IF last_line THEN sel_text \o linesep
                            ELSE sel_text
                block == blockText(joined, at)
                moved == insertText(joined, at, inserted)
            IN restore_selection(
                   moved,
                   at + Len(insertedBlocks(inserted)),
                   start_pos - (Len(block) + 1),
                   end_pos + (IF last_line THEN 1 ELSE 0)
                       - (Len(block) + 1))

\* move_line_up() and move_line_down()
move_line_up(t, a, p, linesep) ==
    move_line_or_selection(t, a, p, FALSE, linesep)

move_line_down(t, a, p, linesep) ==
    move_line_or_selection(t, a, p, TRUE, linesep)

MoveAlphabet == {"a", "b", NewLine}

MoveTexts == Texts(MoveAlphabet, MaxLen)

\* the document and the cursor a method was called on
Entry == [text |-> text, anchor |-> anchor, position |-> position]

InitMove ==
    /\ NoPlugin
    /\ InitDocument(MoveTexts)
    /\ NoDecorations
    /\ widget = [visible |-> FALSE]
    /\ frame = [name |-> "__init__", entry |-> Entry]

MovedTo(s) ==
    /\ text' = s.text
    /\ anchor' = s.anchor
    /\ position' = s.position
    /\ UNCHANGED widget
    /\ UNCHANGED decorationVars
    /\ UNCHANGED pluginVars

MoveLineUp ==
    \E linesep \in LineSeparators :
        /\ MovedTo(move_line_up(text, anchor, position, linesep))
        /\ frame' = [name |-> "move_line_up", entry |-> Entry]

MoveLineDown ==
    \E linesep \in LineSeparators :
        /\ MovedTo(move_line_down(text, anchor, position, linesep))
        /\ frame' = [name |-> "move_line_down", entry |-> Entry]

NextMove ==
    \/ MoveLineUp
    \/ MoveLineDown

SpecMove == InitMove /\ [][NextMove]_vars

\* the lines of a document
Lines(t) == split(t, <<NewLine>>)

\* the numbers of the first and of the last line of the selected block of
\* lines: a selection that ends at the start of a later line ends with the
\* line before it
FirstLine == blockNumber(text, selectionStart(anchor, position)) + 1

LastLine ==
    IF /\ atBlockStart(text, selectionEnd(anchor, position))
       /\ blockNumber(text, selectionEnd(anchor, position)) + 1 > FirstLine
    THEN blockNumber(text, selectionEnd(anchor, position))
    ELSE blockNumber(text, selectionEnd(anchor, position)) + 1

\* how many times a line occurs in a document
Occurrences(t, line) ==
    Cardinality({i \in 1..Len(Lines(t)) : Lines(t)[i] = line})

SameLines(t1, t2) ==
    /\ Len(Lines(t1)) = Len(Lines(t2))
    /\ \A i \in 1..Len(Lines(t1)) :
           Occurrences(t1, Lines(t1)[i]) = Occurrences(t2, Lines(t1)[i])

(***************************************************************************)
(* C14: move_line_up and move_line_down only reorder lines.  The document  *)
(* has the same lines afterwards, each as many times as before; the        *)
(* selected block of lines has changed place with the line before it       *)
(* (up) or after it (down); the document is unchanged when the block       *)
(* starts on the first line (up) or ends on the last line (down).          *)
(***************************************************************************)
C14_MoveLineReordersLines ==
    [][LET lines == Lines(text)
           n == Len(lines)
           i == FirstLine
           j == LastLine
       IN /\ frame'.name \in {"move_line_up", "move_line_down"} =>
                 SameLines(text, text')
          /\ frame'.name = "move_line_up" =>
                 Lines(text') =
                     IF i = 1 THEN lines
                     ELSE SubSeq(lines, 1, i - 2) \o SubSeq(lines, i, j)
                          \o <<lines[i - 1]>> \o SubSeq(lines, j + 1, n)
          /\ frame'.name = "move_line_down" =>
                 Lines(text') =
                     IF j = n THEN lines
                     ELSE SubSeq(lines, 1, i - 1) \o <<lines[j + 1]>>
                          \o SubSeq(lines, i, j) \o SubSeq(lines, j + 2, n)
      ]_vars

\* the last two lines of a document of three lines were selected and went
\* up past its empty first line
C14_Witness ==
    /\ frame.name = "move_line_up"
    /\ Lines(frame.entry.text) = <<<<>>, <<"a">>, <<"b">>>>
    /\ selectionStart(frame.entry.anchor, frame.entry.position) = 1
    /\ selectionEnd(frame.entry.anchor, frame.entry.position) = 4
    /\ Lines(text) = <<<<"a">>, <<"b">>, <<>>>>

(***************************************************************************)
(* The extra selections of a text edit: extra_selections_dict keeps a list *)
(* of decorations per key, update_extra_selections hands all of them to    *)
(* the decorations manager.  A decoration is named by its identity; its    *)
(* draw_order attribute, which only the manager's drawing reads, is not    *)
(* part of the state.  frame.held is what the manager held when the        *)
(* method was called.                                                      *)
(***************************************************************************)
MaxSelections == 2

Keys == {"current_line", "occurrences"}

Decorations == {"d1", "d2", "d3"}

\* the lists of decorations a caller passes: at most MaxSelections
\* decorations, none twice
SelectionLists ==
    {l \in UNION {[1..k -> Decorations] : k \in 0..MaxSelections} :
         \A i, j \in 1..Len(l) : l[i] = l[j] => i = j}

\* self.decorations.add(list): the decorations not yet held are added
decorations_add(held, list) == held \cup Range(list)

\* self.decorations.remove(decoration)
decorations_remove(held, decoration) == held \ {decoration}

\* get_extra_selections(key)
get_extra_selections(dict, key) ==
    IF key \in DOMAIN dict THEN dict[key] ELSE <<>>

\* dict[key] = value
SetItem(dict, key, value) ==
    [k \in DOMAIN dict \cup {key} |-> IF k = key THEN value ELSE dict[k]]

\* the loop of clear_extra_selections over the decorations of a key
RECURSIVE remove_all(_, _)
remove_all(held, list) ==
    IF list = <<>> THEN held
    ELSE remove_all(decorations_remove(held, Head(list)), Tail(list))

\* the method when the decorations of the key stay with the manager
clear_extra_selections_keeping_decorations(dict, held, key) ==
    [dict |-> SetItem(dict, key, <<>>),
     held |-> held]

\* clear_extra_selections(key): the dict and the manager's decorations
\* afterwards
clear_extra_selections(dict, held, key) ==
    [dict |-> SetItem(dict, key, <<>>),
     held |-> remove_all(held, get_extra_selections(dict, key))]

\* set_extra_selections(key, extra_selections)
set_extra_selections(dict, held, key, extra_selections) ==
    LET cleared == clear_extra_selections(dict, held, key)
    IN [dict |-> SetItem(cleared.dict, key, extra_selections),
        held |-> cleared.held]

\* the loop of update_extra_selections over extra_selections_dict.items()
RECURSIVE all_selections(_, _)
all_selections(dict, keys) ==
    IF keys = {} THEN <<>>
    ELSE LET key == CHOOSE k \in keys : TRUE
         IN dict[key] \o all_selections(dict, keys \ {key})

\* update_extra_selections()
update_extra_selections(dict, held) ==
    [dict |-> dict,
     held |-> decorations_add(held, all_selections(dict, DOMAIN dict))]

InitSelections ==
    /\ NoPlugin
    /\ text = <<>>
    /\ anchor = 0
    /\ position = 0
    /\ NoDecorations
    /\ widget = [visible |-> FALSE]
    /\ frame = [name |-> "__init__", key |-> "", selections |-> <<>>,
                returned |-> <<>>, held |-> {}]

SelectionsBecome(s) ==
    /\ extra_selections_dict' = s.dict
    /\ decorations' = s.held
    /\ UNCHANGED <<text, anchor, position, cell_separators, widget>>
    /\ UNCHANGED pluginVars

GetExtraSelections ==
    \E key \in Keys :
        /\ frame' = [name |-> "get_extra_selections", key |-> key,
                     selections |-> <<>>,
                     returned |-> get_extra_selections(
                                      extra_selections_dict, key),
                     held |-> decorations]
        /\ UNCHANGED <<text, anchor, position, widget>>
        /\ UNCHANGED decorationVars
        /\ UNCHANGED pluginVars

SetExtraSelections ==
    \E key \in Keys, extra_selections \in SelectionLists :
        /\ SelectionsBecome(set_extra_selections(
               extra_selections_dict, decorations, key, extra_selections))
        /\ frame' = [name |-> "set_extra_selections", key |-> key,
                     selections |-> extra_selections,
                     returned |-> <<>>, held |-> decorations]

UpdateExtraSelections ==
    /\ SelectionsBecome(update_extra_selections(extra_selections_dict,
                                                decorations))
    /\ frame' = [name |-> "update_extra_selections", key |-> "",
                 selections |-> <<>>, returned |-> <<>>,
                 held |-> decorations]

ClearExtraSelections ==
    \E key \in Keys :
        /\ SelectionsBecome(clear_extra_selections(
               extra_selections_dict, decorations, key))
        /\ frame' = [name |-> "clear_extra_selections", key |-> key,
                     selections |-> <<>>, returned |-> <<>>,
                 held |-> decorations]

NextSelections ==
    \/ GetExtraSelections
    \/ SetExtraSelections
    \/ UpdateExtraSelections
    \/ ClearExtraSelections

SpecSelections == InitSelections /\ [][NextSelections]_vars

\* the decorations stored under some key
Stored ==
    UNION {Range(extra_selections_dict[k]) : k \in DOMAIN extra_selections_dict}

(***************************************************************************)
(* C13: set_extra_selections(key, selections) removes the decorations      *)
(* added before to the same key.  Afterwards get_extra_selections(key) is  *)
(* the new list, the manager holds none of the decorations that were       *)
(* stored under the key, and the lists of the other keys are as before.    *)
(* Whatever the methods called, the manager holds only decorations that    *)
(* are stored under some key.                                              *)
(***************************************************************************)
C13_SetExtraSelectionsReplaces ==
    /\ [](decorations \subseteq Stored)
    /\ [](frame.name = "get_extra_selections" =>
              frame.returned =
                  get_extra_selections(extra_selections_dict, frame.key))
    /\ [][frame'.name = "set_extra_selections" =>
              /\ get_extra_selections(extra_selections_dict', frame'.key)
                     = frame'.selections
              /\ \A d \in Range(get_extra_selections(extra_selections_dict,
                                                     frame'.key)) :
                     d \notin decorations'
              /\ \A d \in decorations' : d \in decorations
              /\ DOMAIN extra_selections_dict' =
                     DOMAIN extra_selections_dict \cup {frame'.key}
              /\ \A k \in DOMAIN extra_selections_dict \ {frame'.key} :
                     extra_selections_dict'[k] = extra_selections_dict[k]
         ]_vars

\* the decorations of a key were replaced after an update: the manager
\* held three decorations and holds the decoration of the other key only
C13_Witness ==
    /\ frame.name = "set_extra_selections"
    /\ frame.key = "current_line"
    /\ frame.selections = <<"d2", "d1">>
    /\ frame.held = {"d1", "d2", "d3"}
    /\ DOMAIN extra_selections_dict = Keys
    /\ extra_selections_dict["occurrences"] = <<"d3">>
    /\ decorations = {"d3"}

(***************************************************************************)
(* CompletionWidget: the list of completions shown for the word at the     *)
(* cursor of its text edit.  widget is                                     *)
(*   completion_list      the completions given to show_list; <<>> is None *)
(*   completion_position  the position they were asked at, or NoPosition   *)
(*   automatic, is_internal_console    the attributes of these names       *)
(*   items                the texts of the items of the list widget        *)
(*   current_row          currentRow(), NoRow when no item is current      *)
(*   visible              whether the widget is shown                      *)
(* A completion is a dict with 'filterText' and 'insertText' (isdict), or  *)
(* a sequence whose first element is its label.                            *)
(***************************************************************************)
MaxCompletions == 2

MaxWord == 2

\* completion_position = None, position = None
NoPosition == -1

\* currentRow() of a list widget without current item
NoRow == -1

\* self.empty_text = 'No match'
empty_text == <<"N", "o", " ", "m", "a", "t", "c", "h">>

\* str.lower() of a character and of a text
lower(c) ==
    CASE c = "A" -> "a"
      [] c = "B" -> "b"
      [] OTHER -> c

Lower(s) == [i \in 1..Len(s) |-> lower(s[i])]

\* the method when the case of the letters counts
check_can_complete_with_case(label, sub) ==
    IF sub = <<>> THEN TRUE
    ELSE startswith(label, sub)

\* check_can_complete(text, sub); the filter None is the empty text
check_can_complete(label, sub) ==
    IF sub = <<>> THEN TRUE
    ELSE startswith(Lower(label), Lower(sub))

\* the label update_list filters a completion by and the text of its item
completion_label(w, completion) ==
    IF ~w.is_internal_console THEN completion.filterText
    ELSE completion.first

item_text(w, completion) ==
    IF ~w.is_internal_console THEN completion.insertText
    ELSE completion.first

\* the loop of update_list: the items added for the completions
RECURSIVE added_items(_, _, _)
added_items(w, completions, filter_text) ==
    IF completions = <<>> THEN <<>>
    ELSE (IF check_can_complete(completion_label(w, Head(completions)),
                                filter_text)
          THEN <<item_text(w, Head(completions))>>
          ELSE <<>>)
         \o added_items(w, Tail(completions), filter_text)

\* update_list(filter_text): the widget afterwards
update_list(w, filter_text) ==
    LET items == added_items(w, w.completion_list, filter_text)
    IN IF Len(items) > 0
       THEN [w EXCEPT !.items = items, !.current_row = 0]
       ELSE [w EXCEPT !.items = <<empty_text>>, !.current_row = NoRow]

\* hide()
hide(w) ==
    [w EXCEPT !.completion_position = NoPosition,
              !.completion_list = <<>>,
              !.items = <<>>,
              !.current_row = NoRow,
              !.visible = FALSE]

WordCharacters == {"a", "b", "A", "B"}

RECURSIVE StartOfWord(_, _)
StartOfWord(t, p) ==
    IF p = 0 \/ t[p] \notin WordCharacters THEN p ELSE StartOfWord(t, p - 1)

RECURSIVE EndOfWord(_, _)
EndOfWord(t, p) ==
    IF p = Len(t) \/ t[p + 1] \notin WordCharacters THEN p
    ELSE EndOfWord(t, p + 1)

\* textedit.get_current_word_and_position(completion=True) for a cursor
\* without selection: None after a space or at the start of the document,
\* else the word the cursor is in or at the end of, and where it starts
get_current_word_and_position(t, p) ==
    IF p = 0 \/ t[p] \notin WordCharacters
    THEN [none |-> TRUE, word |-> <<>>, start |-> 0]
    ELSE [none |-> FALSE,
          word |-> Slice(t, StartOfWord(t, p), EndOfWord(t, p)),
          start |-> StartOfWord(t, p)]

\* textedit.get_current_word(completion=True); None is the empty text
get_current_word(t, p) == get_current_word_and_position(t, p).word

\* is_position_correct()
is_position_correct(w, t, p) ==
    LET completion_text == get_current_word_and_position(t, p)
    IN IF w.completion_position = NoPosition THEN FALSE
       ELSE IF p < w.completion_position THEN FALSE
       ELSE IF completion_text.none THEN w.completion_position = p
       ELSE /\ completion_text.start <= w.completion_position
            /\ w.completion_position
                   <= completion_text.start + Len(completion_text.word)

\* update_current()
update_current(w, t, p) ==
    IF ~is_position_correct(w, t, p) THEN hide(w)
    ELSE update_list(w, get_current_word(t, p))

\* textedit.insert_completion(text, completion_position): the document and
\* the cursor afterwards
insert_completion(t, p, inserted, completion_position) ==
    LET result == get_current_word_and_position(t, p)
        end_position == result.start + Len(result.word)
        removed == removeSelectedText(t, result.start, end_position)
    IN IF inserted = <<>> THEN [text |-> t, position |-> p]
       ELSE IF ~result.none
       THEN IF ~(/\ result.start <= completion_position
                 /\ completion_position <= end_position)
            THEN [text |-> t, position |-> p]
            ELSE [text |-> insertText(removed, result.start, inserted),
                  position |-> result.start + Len(inserted)]
       ELSE IF p # completion_position THEN [text |-> t, position |-> p]
       ELSE [text |-> insertText(t, p, inserted),
             position |-> p + Len(inserted)]

\* item_selected(): the widget, the document and the cursor afterwards
item_selected(w, t, p) ==
    LET edited == IF w.current_row # NoRow
                     /\ w.completion_position # NoPosition
                  THEN insert_completion(t, p, w.items[w.current_row + 1],
                                         w.completion_position)
                  ELSE [text |-> t, position |-> p]
    IN [widget |-> hide(w), text |-> edited.text,
        position |-> edited.position]

\* the method when a single match is inserted whatever automatic says
show_list_ignoring_automatic(w, t, p, completion_list, at, automatic) ==
    LET given == [w EXCEPT
                      !.automatic = automatic,
                      !.completion_position =
                          IF at = NoPosition THEN p ELSE at,
                      !.is_internal_console =
                          IF ~completion_list[1].isdict THEN TRUE ELSE @,
                      !.completion_list = completion_list]
        updated == update_current(given, t, p)
        single_match == /\ Len(updated.items) = 1
                        /\ updated.items[1] # empty_text
    IN IF completion_list = <<>>
       THEN [widget |-> hide(w), text |-> t, position |-> p]
       ELSE IF at # NoPosition /\ p < at
       THEN [widget |-> hide([w EXCEPT !.automatic = automatic]),
             text |-> t, position |-> p]
       ELSE IF updated.completion_list = <<>>
       THEN [widget |-> updated, text |-> t, position |-> p]
       ELSE IF single_match
       THEN item_selected(updated, t, p)
       ELSE [widget |-> [updated EXCEPT !.visible = TRUE],
             text |-> t, position |-> p]

\* show_list(completion_list, position, automatic), at being the position
\* given: the widget, the
\* document and the cursor afterwards
show_list(w, t, p, completion_list, at, automatic) ==
    LET given == [w EXCEPT
                      !.automatic = automatic,
                      !.completion_position =
                          IF at = NoPosition THEN p ELSE at,
                      !.is_internal_console =
                          IF ~completion_list[1].isdict THEN TRUE ELSE @,
                      !.completion_list = completion_list]
        updated == update_current(given, t, p)
        single_match == /\ Len(updated.items) = 1
                        /\ updated.items[1] # empty_text
    IN IF completion_list = <<>>
       THEN [widget |-> hide(w), text |-> t, position |-> p]
       ELSE IF at # NoPosition /\ p < at
       THEN [widget |-> hide([w EXCEPT !.automatic = automatic]),
             text |-> t, position |-> p]
       ELSE IF updated.completion_list = <<>>
       THEN [widget |-> updated, text |-> t, position |-> p]
       ELSE IF single_match /\ ~updated.automatic
       THEN item_selected(updated, t, p)
       ELSE [widget |-> [updated EXCEPT !.visible = TRUE],
             text |-> t, position |-> p]

\* the completions of an editor (dicts) and of an internal console
EditorCompletions ==
    {[isdict |-> TRUE, filterText |-> <<"a">>, insertText |-> <<"a">>,
      first |-> <<>>],
     [isdict |-> TRUE, filterText |-> <<"A", "b">>,
      insertText |-> <<"A", "b", "b">>, first |-> <<>>],
     [isdict |-> TRUE, filterText |-> <<"b">>, insertText |-> <<"a", "b">>,
      first |-> <<>>]}

ConsoleCompletions ==
    {[isdict |-> FALSE, filterText |-> <<>>, insertText |-> <<>>,
      first |-> <<"a">>],
     [isdict |-> FALSE, filterText |-> <<>>, insertText |-> <<>>,
      first |-> <<"A", "b">>]}

CompletionLists(completions) ==
    UNION {[1..k -> completions] : k \in 0..MaxCompletions}

\* the completions the text edit of the widget asks for: dicts in an
\* editor, sequences in an internal console
CompletionsOf(console) ==
    IF console THEN CompletionLists(ConsoleCompletions)
    ELSE CompletionLists({c \in EditorCompletions :
                             c.filterText # <<"b">>})

WordTexts == Texts({"a", "b", " "}, MaxWord)

\* CompletionWidget.__init__
NewWidget ==
    [is_internal_console |-> FALSE,
     completion_list |-> <<>>,
     completion_position |-> NoPosition,
     automatic |-> FALSE,
     items |-> <<>>,
     current_row |-> NoRow,
     visible |-> FALSE]

InitCompletion ==
    /\ NoPlugin
    /\ text \in WordTexts
    /\ position \in 0..Len(text)
    /\ anchor = position
    /\ NoDecorations
    /\ widget = NewWidget
    /\ \E console \in BOOLEAN :
           frame = [name |-> "__init__", console |-> console,
                    completion_list |-> <<>>, position |-> NoPosition,
                    entry |-> Entry]

CompletionBecomes(s) ==
    /\ widget' = s.widget
    /\ text' = s.text
    /\ position' = s.position
    /\ anchor' = s.position
    /\ UNCHANGED decorationVars
    /\ UNCHANGED pluginVars

ShowList ==
    \E completion_list \in CompletionsOf(frame.console),
       at \in {NoPosition} \cup (0..Len(text)), automatic \in BOOLEAN :
        /\ CompletionBecomes(show_list(widget, text, position,
                                       completion_list, at, automatic))
        /\ frame' = [frame EXCEPT !.name = "show_list",
                                  !.completion_list = completion_list,
                                  !.position = at,
                                  !.entry = Entry]

\* keyPressEvent of a key with a text: the text edit receives the
\* character, then update_current()
KeyPressText ==
    \E c \in {"a", "b", " "} :
        /\ widget.visible
        /\ Len(text) < MaxWord
        /\ CompletionBecomes(
               [widget |-> update_current(widget,
                                          insertText(text, position, <<c>>),
                                          position + 1),
                text |-> insertText(text, position, <<c>>),
                position |-> position + 1])
        /\ frame' = [frame EXCEPT !.name = "keyPressEvent",
                                  !.completion_list = <<>>,
                                  !.position = NoPosition,
                                  !.entry = Entry]

\* keyPressEvent of Key_Escape: hide()
KeyPressEscape ==
    /\ widget.visible
    /\ CompletionBecomes([widget |-> hide(widget), text |-> text,
                          position |-> position])
    /\ frame' = [frame EXCEPT !.name = "hide",
                              !.completion_list = <<>>,
                              !.position = NoPosition,
                              !.entry = Entry]

NextCompletion ==
    \/ ShowList
    \/ KeyPressText
    \/ KeyPressEscape

SpecCompletion == InitCompletion /\ [][NextCompletion]_vars

(***************************************************************************)
(* update_list on a widget that shows completions: show_list has stored    *)
(* them and has filled the list with all of them.                          *)
(***************************************************************************)
FilterTexts == {<<>>, <<"a">>, <<"A">>, <<"a", "B">>, <<"b">>, <<"b", "a">>}

Shown(completion_list) ==
    update_list([NewWidget EXCEPT
                     !.completion_list = completion_list,
                     !.completion_position = 0,
                     !.is_internal_console = ~completion_list[1].isdict,
                     !.visible = TRUE],
                <<>>)

InitShown ==
    /\ NoPlugin
    /\ text = <<>>
    /\ position = 0
    /\ anchor = 0
    /\ NoDecorations
    /\ \E completion_list \in CompletionLists(EditorCompletions)
                                \cup CompletionLists(ConsoleCompletions) :
           /\ completion_list # <<>>
           /\ widget = Shown(completion_list)
    /\ frame = [name |-> "show_list", filter_text |-> <<>>]

UpdateList ==
    \E filter_text \in FilterTexts :
        /\ widget' = update_list(widget, filter_text)
        /\ frame' = [name |-> "update_list", filter_text |-> filter_text]
        /\ UNCHANGED <<text, anchor, position>>
        /\ UNCHANGED decorationVars
        /\ UNCHANGED pluginVars

NextShown == UpdateList

SpecShown == InitShown /\ [][NextShown]_vars

\* the label a completion is matched by and the text its item shows
LabelOf(completion) ==
    IF completion.isdict THEN completion.filterText ELSE completion.first

DisplayedText(completion) ==
    IF completion.isdict THEN completion.insertText ELSE completion.first

SameLetter(c, d) == c = d \/ {c, d} \in {{"a", "A"}, {"b", "B"}}

StartsWithIgnoringCase(s, prefix) ==
    /\ Len(prefix) <= Len(s)
    /\ \A i \in 1..Len(prefix) : SameLetter(s[i], prefix[i])

\* the completions of a list that match a word, in the order of the list
Matching(completion_list, word) ==
    LET Matches(c) == StartsWithIgnoringCase(LabelOf(c), word)
    IN SelectSeq(completion_list, Matches)

\* the word at the cursor, as show_list finds it
WordAtCursor == get_current_word_and_position(text, position)

\* show_list is given a position at which the completions apply: none, or
\* one in the word at the cursor and not after the cursor
ValidPosition(at) ==
    \/ at = NoPosition
    \/ /\ at <= position
       /\ IF WordAtCursor.none THEN at = position
          ELSE /\ WordAtCursor.start <= at
               /\ at <= WordAtCursor.start + Len(WordAtCursor.word)

\* the document in which a completion has replaced the word at the cursor
Completed(completion) ==
    IF WordAtCursor.none
    THEN Slice(text, 0, position) \o DisplayedText(completion)
         \o Slice(text, position, Len(text))
    ELSE Slice(text, 0, WordAtCursor.start) \o DisplayedText(completion)
         \o Slice(text, WordAtCursor.start + Len(WordAtCursor.word),
                  Len(text))

C12_UpdateListFilters ==
    [][frame'.name = "update_list"
       => LET matching == Matching(widget.completion_list,
                                   frame'.filter_text)
          IN /\ widget'.items # <<>>
             /\ IF matching # <<>>
                THEN /\ widget'.items =
                            [i \in 1..Len(matching) |->
                                 DisplayedText(matching[i])]
                     /\ widget'.current_row = 0
                ELSE widget'.items = <<empty_text>>
      ]_vars

\* of two completions the filter "aB" left the second, whose label is "Ab"
C12_Witness ==
    /\ frame.name = "update_list"
    /\ frame.filter_text = <<"a", "B">>
    /\ Len(widget.completion_list) = 2
    /\ LabelOf(widget.completion_list[1]) = <<"a">>
    /\ widget.items = <<<<"A", "b", "b">>>>
    /\ widget.current_row = 0

====
